---- MODULE Spec2Model ----
(***************************************************************************)
(* Model of the progress-synchronisation channel of goat-scraper's         *)
(* frontend: the useProgressSync hook (identity store, WebSocket           *)
(* connection management, offline queue, reconnect timer, poll interval).  *)
(*                                                                         *)
(* One hook instance is modelled through its life: the page is loaded      *)
(* ("fresh"), the component mounts, is re-rendered when its username or    *)
(* its courseId changes, unmounts, and the page may be reloaded.  Sockets  *)
(* the hook created keep their handlers (closures over the username, the   *)
(* courseId and the connect function of the render that created them)      *)
(* until the page is reloaded.                                             *)
(*                                                                         *)
(* Strings that the code inspects (usernames) are sequences of characters; *)
(* opaque strings (ids, course ids, file keys) are TLA+ strings.           *)
(***************************************************************************)
EXTENDS Integers, Sequences, FiniteSets, TLC

\* ---------------------------------------------------------------- bounds
MaxSockets == 3      \* WebSocket objects created per page load
MaxUpdates == 2      \* sendProgressUpdate calls per page load

\* ---------------------------------------------------------------- inputs
NoId == "none"                       \* localStorage has no "progress-user-id"
Ids == {"u1", "u2"}                  \* tokens the id generator can produce
\* `user_${Date.now()}_${random}`: a token that differs from the stored one
FreshId(stored) == CHOOSE id \in Ids : id # stored
Absent == <<"absent">>               \* localStorage has no "progress-username"
EmptyName == <<>>                    \* the string ""
GeneratedNames == {<<"g">>}          \* results of generateUsername
NameInputs == {<<>>, <<" ">>, <<" ", "a">>}   \* typed into the dialog
NameArgs == {<<>>, <<" ">>, <<"a">>}       \* passed to updateUsername directly
Courses == {"c1", "c2"}
FileKeys == {"1-1"}

MaxTotal == 3        \* largest totalFiles argument of a progress query
MaxAggUpdates == 3   \* progress updates the aggregator handles
MaxEntries == 3      \* entries of a leaderboard handed to a component

\* the progress store: courses, file keys ("<unit>-<class id>"), and the key
\* lists the pages pass to the store
PCourses == {"c1", "c2"}
PKeys == {"1-1", "1-2", "2-1"}
KeyLists == {<<>>, <<"2-1">>, <<"1-1", "1-2">>, <<"1-1", "1-2", "2-1">>}
\* the units of a course and, per unit, the file keys of its materials as
\* the pages list them (`${unit.unit_number}-${cls.class_id}`)
Units == {1, 2}
UnitFileKeys(unitNumber) == IF unitNumber = 1 THEN <<"1-1", "1-2">> ELSE <<"2-1">>
\* the characters of a file key and of the decimal form of a unit number
KeyChars(k) == <<IF k = "2-1" THEN "2" ELSE "1", "-", IF k = "1-2" THEN "2" ELSE "1">>
NumberChars(n) == <<IF n = 1 THEN "1" ELSE "2">>

VARIABLES
  lsUserId,             \* localStorage["progress-user-id"]
  lsUsername,           \* localStorage["progress-username"]
  phase,                \* "fresh" | "mounted" | "unmounted"
  wsUrlValid,           \* does new WebSocket(url) accept the configured URL
  userId,               \* useState userId
  username,             \* useState username
  courseId,             \* the hook's argument
  isConnected,          \* useState isConnected
  sockets,              \* every WebSocket the hook created, in creation order
  wsRef,                \* wsRef.current: 0 (null) or an index of sockets
  reconnectTimeoutRef,  \* reconnectTimeoutRef.current: 0 or a timer id
  timers,               \* pending reconnect timers (id = socket whose onclose set it)
  pendingUpdatesRef,    \* pendingUpdatesRef.current
  sent,                 \* messages sent by the last step, in order
  wire,                 \* issue numbers of the progress updates sent so far
  queuedLog,            \* issue numbers of the updates that were queued, in issue order
  nextSeq,              \* number of sendProgressUpdate calls so far
  lastOp,               \* the last operation and its arguments
  leaderboard,          \* useState leaderboard
  received,             \* the message events the last step's onmessage handled (none or one)
  lastFor,              \* per course a leaderboard array came for, the entries of the last one
  aggregator,           \* the aggregator's state, a record (fields below)
  view,                 \* the rendered leaderboard component, a record (fields below)
  store,                \* the ProgressProvider's state, a record (fields below)
  unit,                 \* one unit of the course page, a record (fields below)
  study                 \* the study page's state, a record (fields below)

\* the aggregator's fields
aggConns == aggregator.conns            \* per connection, is it open and its subscriptions
aggregate == aggregator.aggregate       \* CourseAggregate entries per (course, user)
tieOrder == aggregator.tieOrder         \* the fixed rule ordering exact ties (a user order)
outbox == aggregator.outbox             \* messages sent by the last step, in order
aggOp == aggregator.op                  \* the last message handled
aggCount == aggregator.count            \* number of progress updates handled
totalSupplied == aggregator.totalSupplied  \* did any progress_update so far carry a total
repeated == aggregator.repeated         \* was the last progress_update the same as the one before it

\* the component's fields
viewOp == view.op                       \* which leaderboard component rendered last
viewEntries == view.entries             \* its entries prop
viewShown == view.shown                 \* the rows it displays: rank and entry, in display order
viewUserRank == view.userRank           \* CompactLeaderboard: currentUserRank (0 for null)

\* the store's fields
progress == store.progress              \* useState progress (courseId -> fileKey -> flag)
handed == store.handed                  \* sendProgressToServer calls of the last step, in order
progOp == store.op                      \* the last operation on the progress store
progResult == store.result              \* what the last step's getUnitProgress / getCourseProgress returned
\* the toggled file's flag before the last toggleFileComplete; "kept" after a
\* toggleUnitComplete that listed a key whose flag already had the value
flagBefore == store.before
flagTwoAgo == store.twoAgo              \* its flag before the toggle before, if that toggled the same file
unitAnswer == store.answer              \* what the last step's isUnitComplete returned

vars == <<lsUserId, lsUsername, phase, wsUrlValid, userId, username, courseId,
          isConnected, sockets, wsRef, reconnectTimeoutRef, timers,
          pendingUpdatesRef, sent, wire, queuedLog, nextSeq, lastOp,
          leaderboard, received, lastFor, aggregator, view, store, unit, study>>

\* the hook's own variables
hookVars == <<lsUserId, lsUsername, phase, wsUrlValid, userId, username, courseId,
              isConnected, sockets, wsRef, reconnectTimeoutRef, timers,
              pendingUpdatesRef, sent, wire, queuedLog, nextSeq, lastOp,
              leaderboard, received, lastFor>>

\* the progress store's variables
progressVars == <<store>>

\* the aggregator's variables
aggVars == <<aggregator>>

\* the leaderboard components' variables
viewVars == <<view>>

\* the pages' variables
pageVars == <<unit, study>>

\* the variables of the components the hook does not know of (the study page
\* is not among them: it renders the hook)
outside == <<progressVars, aggVars, viewVars, unit>>

identityVars == <<lsUserId, lsUsername, userId>>

\* ------------------------------------------------------- pure functions

IsSpace(c) == c = " "

RECURSIVE TrimStart(_)
TrimStart(s) ==
  IF s = <<>> THEN <<>>
  ELSE IF IsSpace(Head(s)) THEN TrimStart(Tail(s)) ELSE s

RECURSIVE TrimEnd(_)
TrimEnd(s) ==
  IF s = <<>> THEN <<>>
  ELSE IF IsSpace(s[Len(s)]) THEN TrimEnd(SubSeq(s, 1, Len(s) - 1)) ELSE s

\* String.prototype.trim
Trim(s) == TrimEnd(TrimStart(s))

\* updateUsername's guard: if (!newUsername.trim()) return;
RejectsNameNoTrim(newUsername) == newUsername = EmptyName
RejectsName(newUsername) == Trim(newUsername) = EmptyName

\* getUserId: the stored id, or a generated one (fresh) when none is stored
getUserIdAlwaysFresh(stored, fresh) == fresh
getUserId(stored, fresh) == IF stored = NoId THEN fresh ELSE stored

\* getUsername: the stored name, or a generated one when none is stored
getUsername(stored, generated) ==
  IF stored = Absent \/ stored = EmptyName THEN generated ELSE stored

\* ------------------------------------------------------------- messages
NoField == "-"

\* the record kept in lastOp: the operation, and its arguments (a name, a
\* course id or file key or socket number, a flag)
Op(op, name, key, flag) == [op |-> op, name |-> name, key |-> key, flag |-> flag]

SetUsernameMsg(sock, name) ==
  [type |-> "set_username", sock |-> sock, courseId |-> NoField,
   fileKey |-> NoField, isComplete |-> FALSE, username |-> name, seq |-> 0]

RequestLeaderboardMsg(sock, course) ==
  [type |-> "request_leaderboard", sock |-> sock, courseId |-> course,
   fileKey |-> NoField, isComplete |-> FALSE, username |-> EmptyName, seq |-> 0]

\* {type: "progress_update", ...update, username}
ProgressMsgNoName(sock, update, name) ==
  [type |-> "progress_update", sock |-> sock, courseId |-> update.courseId,
   fileKey |-> update.fileKey, isComplete |-> update.isComplete,
   username |-> EmptyName, seq |-> update.seq]
ProgressMsg(sock, update, name) ==
  [type |-> "progress_update", sock |-> sock, courseId |-> update.courseId,
   fileKey |-> update.fileKey, isComplete |-> update.isComplete,
   username |-> name, seq |-> update.seq]

\* const update = {courseId, fileKey, isComplete}; seq is the issue number
Update(course, fileKey, isComplete, seq) ==
  [courseId |-> course, fileKey |-> fileKey, isComplete |-> isComplete, seq |-> seq]

\* pendingUpdatesRef.current.push(update)
EnqueueFront(queue, update) == <<update>> \o queue
Enqueue(queue, update) == Append(queue, update)

\* pendingUpdatesRef.current.forEach(update => ws.send(...))
FlushMessages(sock, queue, name) ==
  [k \in 1..Len(queue) |-> ProgressMsg(sock, queue[k], name)]

SeqsOf(msgs) == [k \in 1..Len(msgs) |-> msgs[k].seq]

\* ------------------------------------------------------------- sockets
Live(s) == s.st \in {"CONNECTING", "OPEN"}

SocketIsLive(socks, ref) == ref # 0 /\ socks[ref].st \in {"CONNECTING", "OPEN"}
\* wsRef.current && wsRef.current.readyState === WebSocket.OPEN
SocketIsOpen(socks, ref) == ref # 0 /\ socks[ref].st = "OPEN"

\* ws.close(): a connecting or open socket starts closing; its close event
\* is delivered later
CloseSocket(socks, ref) ==
  IF ref # 0 /\ Live(socks[ref])
  THEN [socks EXCEPT ![ref].st = "CLOSING"]
  ELSE socks

\* new WebSocket(...) with the handlers of this render's connect
NewSocket(name, course) ==
  [st |-> "CONNECTING", username |-> name, courseId |-> course]

\* setIsConnected(v): a state update of an unmounted component is dropped
SetIsConnected(v) == IF phase = "mounted" THEN v ELSE isConnected

\* cleanup of the connect effect: clearTimeout(reconnectTimeoutRef.current),
\* wsRef.current.close()
CleanupTimers(ts, ref) == IF ref # 0 THEN ts \ {ref} ELSE ts

\* The connect effect after a render in which connect changed: the cleanup
\* of the previous run, then connect() of the new render.
RerunConnectEffect(name, course) ==
  LET closed == CloseSocket(sockets, wsRef)
  IN /\ timers' = CleanupTimers(timers, reconnectTimeoutRef)
     /\ reconnectTimeoutRef' = reconnectTimeoutRef
     /\ IF wsUrlValid
        THEN /\ sockets' = Append(closed, NewSocket(name, course))
             /\ wsRef' = Len(closed) + 1
             /\ isConnected' = isConnected
        ELSE /\ sockets' = closed
             /\ wsRef' = wsRef
             /\ isConnected' = FALSE

POp(op, course, keys, total, flag) ==
  [op |-> op, course |-> course, keys |-> keys, total |-> total, flag |-> flag]

NoResult == [completed |-> 0, total |-> 0, percentage |-> 0]

\* the last operation (or the two last ones) did not toggle one file
NoFlag == "none"

\* ------------------------------------------------------------ messages in
\* A LeaderboardEntry, without the fields that are only displayed
Entry(uid, completed, total, percentage) ==
  [userId |-> uid, completed |-> completed, total |-> total, percentage |-> percentage]

\* the value of data.leaderboard: an array of entries, or undefined when the
\* message has no such field
Board(entries) == [isArray |-> TRUE, entries |-> entries]
Undefined == [isArray |-> FALSE, entries |-> <<>>]

\* leaderboards the server may send
Boards == {Board(<<Entry("u2", 1, 1, 100), Entry("u1", 0, 1, 0)>>),
           Board(<<Entry("u2", 1, 1, 100)>>)}

\* event.data: text that JSON.parse rejects, a "connected" greeting, a
\* message of an unknown type, or a leaderboard_update
Msg(kind, course, board) == [kind |-> kind, courseId |-> course, board |-> board]
Msgs ==
  {Msg(k, NoField, Undefined) : k \in {"unparseable", "connected", "other"}}
    \cup {Msg("leaderboard_update", c, b) : c \in Courses, b \in Boards \cup {Undefined}}

NoMsg == <<>>
\* no leaderboard array has come for any course
NotSeen == [c \in {} |-> <<>>]

\* setLeaderboard(v): a state update of an unmounted component is dropped
SetLeaderboard(v) == IF phase = "mounted" THEN v ELSE leaderboard

\* leaderboard.findIndex(entry => entry.userId === uid): 0-based, -1 if none
FindIndex(entries, uid) ==
  IF \E i \in DOMAIN entries : entries[i].userId = uid
  THEN (CHOOSE i \in DOMAIN entries :
          /\ entries[i].userId = uid
          /\ \A j \in 1..(i - 1) : entries[j].userId # uid) - 1
  ELSE -1

\* the currentUserRank the hook returns; 0 stands for null.  Only defined
\* when the leaderboard state holds an array.
currentUserRank(uid, entries) ==
  LET rank == IF uid # NoId THEN FindIndex(entries, uid) + 1 ELSE 0
  IN IF rank > 0 THEN rank ELSE 0

\* ---------------------------------------------------- aggregator values
\* The aggregator: its messages and entries.
Conns == {1, 2}                       \* connections, addressed /ws/{userId}
UserOf(c) == IF c = 1 THEN "u1" ELSE "u2"
AggCourses == {"c1"}                  \* courses with materials
AggKeys == {"f1", "f2", "f3"}         \* their file keys
AggNames == {<<"a">>}
NoTotal == 0                          \* no total accompanies the message
CourseTotal == 10                     \* the course's material count
TieOrders == {<<"u1", "u2">>, <<"u2", "u1">>}

NoAggEntry == [present |-> FALSE, username |-> EmptyName, keys |-> {}, total |-> NoTotal]

\* no leaderboard component is on the page
NoView == [op |-> "init", entries |-> <<>>, shown |-> <<>>, userRank |-> 0]

AggOpOf(op, conn, course, key, flag, total) ==
  [op |-> op, conn |-> conn, course |-> course, key |-> key, flag |-> flag,
   total |-> total]

\* ---------------------------------------------------------------- Init
InitHook ==
  /\ lsUserId = NoId
  /\ lsUsername = Absent
  /\ phase = "fresh"
  /\ wsUrlValid \in BOOLEAN
  /\ userId = NoId
  /\ username = EmptyName
  /\ courseId \in Courses
  /\ isConnected = FALSE
  /\ sockets = <<>>
  /\ wsRef = 0
  /\ reconnectTimeoutRef = 0
  /\ timers = {}
  /\ pendingUpdatesRef = <<>>
  /\ sent = <<>>
  /\ wire = <<>>
  /\ queuedLog = <<>>
  /\ nextSeq = 0
  /\ lastOp = Op("init", EmptyName, NoField, FALSE)
  /\ leaderboard = Board(<<>>)
  /\ received = NoMsg
  /\ lastFor = NotSeen

\* a component that is not running
Off == <<>>

\* the ProgressProvider when it mounts: no stored progress
StoreStart ==
  [progress |-> [c \in PCourses |-> [k \in PKeys |-> "unset"]],
   handed |-> <<>>,
   op |-> POp("init", NoField, <<>>, 0, FALSE),
   result |-> NoResult,
   before |-> NoFlag,
   twoAgo |-> NoFlag,
   answer |-> FALSE]

\* the aggregator when it starts, with tie rule order
AggStart(order) ==
  [conns |-> [c \in Conns |-> [open |-> FALSE, subs |-> {}]],
   aggregate |-> [c \in Courses |-> [u \in Ids |-> NoAggEntry]],
   tieOrder |-> order,
   outbox |-> <<>>,
   op |-> AggOpOf("init", 0, NoField, NoField, FALSE, NoTotal),
   count |-> 0,
   totalSupplied |-> FALSE,
   repeated |-> FALSE]

\* no page is shown
PagesOff == unit = Off /\ study = Off

\* the hook alone: the other components are not running
Init == InitHook /\ aggregator = Off /\ view = Off /\ store = Off /\ PagesOff

\* the components outside the hook run with the hook never mounted
HookIdle == wsUrlValid /\ courseId = "c1"

\* The aggregator's tie rule is fixed when it starts; which rule it is is
\* open.
InitAgg ==
  /\ InitHook /\ HookIdle
  /\ \E order \in TieOrders : aggregator = AggStart(order)
  /\ view = Off /\ store = Off /\ PagesOff

InitProgress ==
  InitHook /\ HookIdle /\ store = StoreStart /\ aggregator = Off /\ view = Off /\ PagesOff

InitView ==
  InitHook /\ HookIdle /\ view = NoView /\ aggregator = Off /\ store = Off /\ PagesOff

\* ------------------------------------------------------------- actions

\* The component mounts: the first render, the identity effect, and the
\* connect effect of the render that follows it.
Mount ==
  /\ phase = "fresh"
  /\ \E generated \in GeneratedNames :
       LET id == getUserId(lsUserId, FreshId(lsUserId))
           name == getUsername(lsUsername, generated)
       IN /\ lsUserId' = id
          /\ lsUsername' = name
          /\ userId' = id
          /\ username' = name
          /\ IF wsUrlValid
             THEN /\ sockets' = <<NewSocket(name, courseId)>>
                  /\ wsRef' = 1
             ELSE /\ sockets' = <<>>
                  /\ wsRef' = 0
  /\ phase' = "mounted"
  /\ isConnected' = FALSE
  /\ sent' = <<>>
  /\ lastOp' = Op("mount", EmptyName, NoField, FALSE)
  /\ received' = NoMsg
  /\ UNCHANGED <<lastFor, outside>>
  /\ UNCHANGED <<leaderboard, wsUrlValid, courseId, reconnectTimeoutRef, timers,
                 pendingUpdatesRef, wire, queuedLog, nextSeq>>

\* updateUsername(newUsername), and the re-render it causes
UpdateUsername(newUsername) ==
  /\ phase = "mounted"
  /\ lastOp' = Op("updateUsername", newUsername, NoField, FALSE)
  /\ IF RejectsName(newUsername)
     THEN /\ sent' = <<>>
          /\ UNCHANGED <<lsUsername, username, sockets, wsRef, timers,
                         reconnectTimeoutRef, isConnected>>
     ELSE /\ username' = newUsername
          /\ lsUsername' = newUsername
          /\ sent' = IF SocketIsOpen(sockets, wsRef)
                     THEN <<SetUsernameMsg(wsRef, newUsername)>>
                     ELSE <<>>
          /\ IF newUsername # username
             THEN /\ wsUrlValid => Len(sockets) < MaxSockets
                  /\ RerunConnectEffect(newUsername, courseId)
             ELSE UNCHANGED <<sockets, wsRef, timers, reconnectTimeoutRef,
                              isConnected>>
  /\ received' = NoMsg
  /\ UNCHANGED <<lastFor, outside>>
  /\ UNCHANGED <<leaderboard, lsUserId, phase, wsUrlValid, userId, courseId,
                 pendingUpdatesRef, wire, queuedLog, nextSeq>>

\* Leaderboard.handleUpdateUsername: the dialog's Update button
HandleUpdateUsername ==
  \E typed \in NameInputs :
    IF Trim(typed) # EmptyName
    THEN UpdateUsername(Trim(typed))
    ELSE /\ phase = "mounted"
         /\ lastOp' = Op("handleUpdateUsername", typed, NoField, FALSE)
         /\ sent' = <<>>
         /\ received' = NoMsg
         /\ UNCHANGED <<lastFor, outside>>
         /\ UNCHANGED <<leaderboard, lsUserId, lsUsername, phase, wsUrlValid, userId,
                        username, courseId, isConnected, sockets, wsRef,
                        reconnectTimeoutRef, timers, pendingUpdatesRef,
                        wire, queuedLog, nextSeq>>

\* The hook is re-rendered with another courseId
CourseChange ==
  /\ phase = "mounted"
  /\ wsUrlValid => Len(sockets) < MaxSockets
  /\ \E c \in Courses \ {courseId} :
       /\ courseId' = c
       /\ RerunConnectEffect(username, c)
       /\ lastOp' = Op("courseChange", EmptyName, c, FALSE)
  /\ sent' = <<>>
  /\ received' = NoMsg
  /\ UNCHANGED <<lastFor, outside>>
  /\ UNCHANGED <<leaderboard, lsUserId, lsUsername, phase, wsUrlValid, userId, username,
                 pendingUpdatesRef, wire, queuedLog, nextSeq>>

\* sendProgressUpdate(fileKey, isComplete), reached through
\* window.__sendProgressUpdate, which keeps pointing at the hook's last
\* callback after the component has unmounted
SendProgressUpdate(fileKey, isComplete) ==
  /\ phase \in {"mounted", "unmounted"}
  /\ nextSeq < MaxUpdates
  /\ nextSeq' = nextSeq + 1
  /\ LET update == Update(courseId, fileKey, isComplete, nextSeq + 1)
     IN IF SocketIsOpen(sockets, wsRef)
        THEN /\ sent' = <<ProgressMsg(wsRef, update, username)>>
             /\ wire' = Append(wire, update.seq)
             /\ UNCHANGED <<pendingUpdatesRef, queuedLog>>
        ELSE /\ sent' = <<>>
             /\ pendingUpdatesRef' = Enqueue(pendingUpdatesRef, update)
             /\ queuedLog' = Append(queuedLog, update.seq)
             /\ UNCHANGED wire
  /\ lastOp' = Op("sendProgressUpdate", EmptyName, fileKey, isComplete)
  /\ received' = NoMsg
  /\ UNCHANGED <<lastFor, outside>>
  /\ UNCHANGED <<leaderboard, identityVars, lsUsername, phase, wsUrlValid, username,
                 courseId, isConnected, sockets, wsRef, reconnectTimeoutRef,
                 timers>>

\* pendingUpdatesRef.current = [] at the end of the flush
QueueAfterFlush(queue) == <<>>

\* ws.onopen of socket i: the connection is established
SocketOpen(i) ==
  /\ i \in DOMAIN sockets
  /\ sockets[i].st = "CONNECTING"
  /\ sockets' = [sockets EXCEPT ![i].st = "OPEN"]
  /\ isConnected' = SetIsConnected(TRUE)
  /\ LET flushed == FlushMessages(i, pendingUpdatesRef, sockets[i].username)
     IN /\ sent' = flushed \o <<RequestLeaderboardMsg(i, sockets[i].courseId)>>
        /\ wire' = wire \o SeqsOf(flushed)
  /\ pendingUpdatesRef' = QueueAfterFlush(pendingUpdatesRef)
  /\ lastOp' = Op("open", EmptyName, NoField, FALSE)
  /\ received' = NoMsg
  /\ UNCHANGED <<lastFor, outside>>
  /\ UNCHANGED <<leaderboard, identityVars, lsUsername, phase, wsUrlValid, username,
                 courseId, wsRef, reconnectTimeoutRef, timers, queuedLog,
                 nextSeq>>

\* ws.onclose of socket i: the close event of a socket that was closed by
\* the hook, dropped by the network or refused by the server
SocketClose(i) ==
  /\ i \in DOMAIN sockets
  /\ sockets[i].st \in {"CONNECTING", "OPEN", "CLOSING"}
  /\ sockets' = [sockets EXCEPT ![i].st = "CLOSED"]
  /\ isConnected' = SetIsConnected(FALSE)
  /\ timers' = timers \cup {i}
  /\ reconnectTimeoutRef' = i
  /\ sent' = <<>>
  /\ lastOp' = Op("close", EmptyName, NoField, FALSE)
  /\ received' = NoMsg
  /\ UNCHANGED <<lastFor, outside>>
  /\ UNCHANGED <<leaderboard, identityVars, lsUsername, phase, wsUrlValid, username,
                 courseId, wsRef, pendingUpdatesRef, wire, queuedLog, nextSeq>>

\* The reconnect timer set by socket i's onclose fires: connect() of the
\* render that created socket i
ReconnectTimer(i) ==
  /\ i \in timers
  /\ Len(sockets) < MaxSockets
  /\ timers' = timers \ {i}
  /\ sockets' = Append(sockets, NewSocket(sockets[i].username, sockets[i].courseId))
  /\ wsRef' = Len(sockets) + 1
  /\ sent' = <<>>
  /\ lastOp' = Op("reconnectTimer", EmptyName, NoField, FALSE)
  /\ received' = NoMsg
  /\ UNCHANGED <<lastFor, outside>>
  /\ UNCHANGED <<leaderboard, identityVars, lsUsername, phase, wsUrlValid, username,
                 courseId, isConnected, reconnectTimeoutRef,
                 pendingUpdatesRef, wire, queuedLog, nextSeq>>

\* ws.onmessage of socket i; message events are delivered to an open socket.
\* The snapshots sent to a socket are those of the course it requested in
\* its onopen; a message without a leaderboard array may name any course.
Receive(i, m) ==
  /\ i \in DOMAIN sockets
  /\ sockets[i].st = "OPEN"
  /\ (m.kind = "leaderboard_update" /\ m.board.isArray) => m.courseId = sockets[i].courseId
  /\ leaderboard' = IF m.kind = "leaderboard_update" /\ m.courseId = sockets[i].courseId
                    THEN SetLeaderboard(m.board)
                    ELSE leaderboard
  /\ received' = <<[sock |-> i, msg |-> m]>>
  /\ lastFor' = IF m.kind = "leaderboard_update" /\ m.board.isArray
                THEN [c \in DOMAIN lastFor \cup {m.courseId} |->
                        IF c = m.courseId THEN m.board.entries ELSE lastFor[c]]
                ELSE lastFor
  /\ sent' = <<>>
  /\ lastOp' = Op("message", EmptyName, NoField, FALSE)
  /\ UNCHANGED outside
  /\ UNCHANGED <<identityVars, lsUsername, phase, wsUrlValid, username, courseId,
                 isConnected, sockets, wsRef, reconnectTimeoutRef, timers,
                 pendingUpdatesRef, wire, queuedLog, nextSeq>>

\* The poll effect's interval exists while the component is mounted with
\* isConnected && courseId
PollIntervalActive == phase = "mounted" /\ isConnected /\ courseId # ""

\* One tick of the 5 second poll interval
PollTick ==
  /\ PollIntervalActive
  /\ sent' = IF SocketIsOpen(sockets, wsRef)
             THEN <<RequestLeaderboardMsg(wsRef, courseId)>>
             ELSE <<>>
  /\ lastOp' = Op("pollTick", EmptyName, NoField, FALSE)
  /\ received' = NoMsg
  /\ UNCHANGED <<lastFor, outside>>
  /\ UNCHANGED <<leaderboard, identityVars, lsUsername, phase, wsUrlValid, username,
                 courseId, isConnected, sockets, wsRef, reconnectTimeoutRef,
                 timers, pendingUpdatesRef, wire, queuedLog, nextSeq>>

\* The component unmounts: the cleanups of the connect effect and of the
\* poll effect run
Unmount ==
  /\ phase = "mounted"
  /\ phase' = "unmounted"
  /\ timers' = CleanupTimers(timers, reconnectTimeoutRef)
  /\ sockets' = CloseSocket(sockets, wsRef)
  /\ sent' = <<>>
  /\ lastOp' = Op("unmount", EmptyName, NoField, FALSE)
  /\ received' = NoMsg
  /\ UNCHANGED <<lastFor, outside>>
  /\ UNCHANGED <<leaderboard, identityVars, lsUsername, wsUrlValid, username, courseId,
                 isConnected, wsRef, reconnectTimeoutRef, pendingUpdatesRef,
                 wire, queuedLog, nextSeq>>

\* The page is reloaded: everything in memory is gone (sockets, timers, the
\* pending queue); localStorage stays
Reload ==
  /\ phase \in {"mounted", "unmounted"}
  /\ phase' = "fresh"
  /\ userId' = NoId
  /\ username' = EmptyName
  /\ courseId' \in Courses
  /\ isConnected' = FALSE
  /\ sockets' = <<>>
  /\ wsRef' = 0
  /\ reconnectTimeoutRef' = 0
  /\ timers' = {}
  /\ pendingUpdatesRef' = <<>>
  /\ sent' = <<>>
  /\ wire' = <<>>
  /\ queuedLog' = <<>>
  /\ nextSeq' = 0
  /\ lastOp' = Op("reload", EmptyName, NoField, FALSE)
  /\ leaderboard' = Board(<<>>)
  /\ received' = NoMsg
  /\ lastFor' = NotSeen
  /\ UNCHANGED outside
  /\ UNCHANGED <<lsUserId, lsUsername, wsUrlValid>>

Next ==
  \/ Mount /\ UNCHANGED study
  \/ \E n \in NameArgs : UpdateUsername(n) /\ UNCHANGED study
  \/ HandleUpdateUsername /\ UNCHANGED study
  \/ CourseChange /\ UNCHANGED study
  \/ \E k \in FileKeys, b \in BOOLEAN : SendProgressUpdate(k, b) /\ UNCHANGED study
  \/ \E i \in 1..MaxSockets : SocketOpen(i) /\ UNCHANGED study
  \/ \E i \in 1..MaxSockets : SocketClose(i) /\ UNCHANGED study
  \/ \E i \in 1..MaxSockets : ReconnectTimer(i) /\ UNCHANGED study
  \/ PollTick /\ UNCHANGED study
  \/ Unmount /\ UNCHANGED study
  \/ Reload /\ UNCHANGED study

Spec == Init /\ [][Next]_vars

\* The hook with its incoming messages.  sendProgressUpdate and the rename
\* dialog neither read nor write the leaderboard and are left to Spec.
NextMsg ==
  \/ Mount /\ UNCHANGED study
  \/ \E n \in NameArgs : UpdateUsername(n) /\ UNCHANGED study
  \/ CourseChange /\ UNCHANGED study
  \/ \E i \in 1..MaxSockets : SocketOpen(i) /\ UNCHANGED study
  \/ \E i \in 1..MaxSockets : SocketClose(i) /\ UNCHANGED study
  \/ \E i \in 1..MaxSockets : ReconnectTimer(i) /\ UNCHANGED study
  \/ \E i \in 1..MaxSockets, m \in Msgs : Receive(i, m) /\ UNCHANGED study
  \/ PollTick /\ UNCHANGED study
  \/ Unmount /\ UNCHANGED study
  \/ Reload /\ UNCHANGED study

SpecMsg == Init /\ [][NextMsg]_vars

TypeOK ==
  /\ phase \in {"fresh", "mounted", "unmounted"}
  /\ Len(sockets) <= MaxSockets
  /\ wsRef \in 0..Len(sockets)
  /\ timers \subseteq DOMAIN sockets

\* --------------------------------------------------- the progress store
\* (ProgressProvider).  A flag is "unset" (the key is not in the course's
\* object), "true" or "false".

\* JavaScript truthiness of courseProgress[key]
Truthy(v) == v = "true"

FlagOf(b) == IF b THEN "true" ELSE "false"

\* Math.round(num / den * 100) for num >= 0, den > 0, computed in IEEE
\* doubles as the code does: the quotient is rounded to a double before it is
\* multiplied.  Halves round up; for the pairs below (all there are with
\* den <= 202) the exact value is n + 1/2 but the double product is just
\* under it, so Math.round gives n.
DoubleBelowHalf ==
  {<<23, 40>>, <<46, 80>>, <<69, 120>>, <<92, 160>>,
   <<29, 200>>, <<57, 200>>, <<113, 200>>, <<115, 200>>}
RoundHalfUpPercent(num, den) == (200 * num + den) \div (2 * den)
MathFloorPercent(num, den) == (100 * num) \div den
MathRoundPercent(num, den) ==
  IF <<num, den>> \in DoubleBelowHalf
  THEN RoundHalfUpPercent(num, den) - 1
  ELSE RoundHalfUpPercent(num, den)

\* fileKeys.filter((key) => courseProgress[key]).length
CountCompleted(courseProgress, fileKeys) ==
  Cardinality({k \in DOMAIN fileKeys : Truthy(courseProgress[fileKeys[k]])})

\* the object getUnitProgress and getCourseProgress return
ProgressOf(courseProgress, totalFiles, fileKeys) ==
  LET completed == CountCompleted(courseProgress, fileKeys)
  IN [completed |-> completed,
      total |-> totalFiles,
      percentage |-> IF totalFiles > 0
                     THEN MathRoundPercent(completed, totalFiles)
                     ELSE 0]

ToggleFileCompleteSetsTrue(c, k) ==
  LET isComplete == TRUE
  IN store' = [store EXCEPT
                 !.handed = <<[courseId |-> c, fileKey |-> k, isComplete |-> isComplete]>>,
                 !.progress = [progress EXCEPT ![c][k] = FlagOf(isComplete)],
                 !.op = POp("toggleFileComplete", c, <<k>>, 0, FALSE),
                 !.before = progress[c][k],
                 !.twoAgo = IF progOp = POp("toggleFileComplete", c, <<k>>, 0, FALSE)
                            THEN flagBefore ELSE NoFlag,
                 !.result = NoResult,
                 !.answer = FALSE]

\* toggleFileComplete(courseId, fileKey)
ToggleFileComplete(c, k) ==
  LET isComplete == ~Truthy(progress[c][k])
  IN store' = [store EXCEPT
                 !.handed = <<[courseId |-> c, fileKey |-> k, isComplete |-> isComplete]>>,
                 !.progress = [progress EXCEPT ![c][k] = FlagOf(isComplete)],
                 !.op = POp("toggleFileComplete", c, <<k>>, 0, FALSE),
                 !.before = progress[c][k],
                 !.twoAgo = IF progOp = POp("toggleFileComplete", c, <<k>>, 0, FALSE)
                            THEN flagBefore ELSE NoFlag,
                 !.result = NoResult,
                 !.answer = FALSE]

ToggleUnitCompleteOnlyChanged(c, fileKeys, markComplete) ==
  store' = [store EXCEPT
              !.handed = SelectSeq([i \in DOMAIN fileKeys |->
                                      [courseId |-> c, fileKey |-> fileKeys[i],
                                       isComplete |-> markComplete]],
                                   LAMBDA u : progress[c][u.fileKey] # FlagOf(markComplete)),
              !.progress = [progress EXCEPT ![c] =
                              [k \in PKeys |->
                                 IF \E i \in DOMAIN fileKeys : fileKeys[i] = k
                                 THEN FlagOf(markComplete)
                                 ELSE progress[c][k]]],
              !.op = POp("toggleUnitComplete", c, fileKeys, 0, markComplete),
              !.result = NoResult,
              !.before = IF \E i \in DOMAIN fileKeys : progress[c][fileKeys[i]] = FlagOf(markComplete)
                         THEN "kept" ELSE NoFlag,
              !.twoAgo = NoFlag,
              !.answer = FALSE]

\* toggleUnitComplete(courseId, fileKeys, markComplete)
ToggleUnitComplete(c, fileKeys, markComplete) ==
  store' = [store EXCEPT
              !.handed = [i \in DOMAIN fileKeys |->
                            [courseId |-> c, fileKey |-> fileKeys[i],
                             isComplete |-> markComplete]],
              !.progress = [progress EXCEPT ![c] =
                              [k \in PKeys |->
                                 IF \E i \in DOMAIN fileKeys : fileKeys[i] = k
                                 THEN FlagOf(markComplete)
                                 ELSE progress[c][k]]],
              !.op = POp("toggleUnitComplete", c, fileKeys, 0, markComplete),
              !.result = NoResult,
              !.before = IF \E i \in DOMAIN fileKeys : progress[c][fileKeys[i]] = FlagOf(markComplete)
                         THEN "kept" ELSE NoFlag,
              !.twoAgo = NoFlag,
              !.answer = FALSE]

\* getUnitProgress(courseId, unitNumber, totalFiles, fileKeys); the unit
\* number is not used by the function
GetUnitProgress(c, totalFiles, fileKeys) ==
  store' = [store EXCEPT
              !.result = ProgressOf(progress[c], totalFiles, fileKeys),
              !.op = POp("getUnitProgress", c, fileKeys, totalFiles, FALSE),
              !.handed = <<>>,
              !.before = NoFlag,
              !.twoAgo = NoFlag,
              !.answer = FALSE]

\* getCourseProgress(courseId, totalFiles, allFileKeys)
GetCourseProgress(c, totalFiles, allFileKeys) ==
  store' = [store EXCEPT
              !.result = ProgressOf(progress[c], totalFiles, allFileKeys),
              !.op = POp("getCourseProgress", c, allFileKeys, totalFiles, FALSE),
              !.handed = <<>>,
              !.before = NoFlag,
              !.twoAgo = NoFlag,
              !.answer = FALSE]

\* s.startsWith(prefix)
StartsWith(s, prefix) ==
  Len(prefix) <= Len(s) /\ SubSeq(s, 1, Len(prefix)) = prefix

\* isUnitComplete(courseId, unitNumber): courseProgress holds the keys that
\* were ever toggled
IsUnitComplete(c, unitNumber) ==
  LET courseProgress == progress[c]
      keys == {k \in PKeys : /\ courseProgress[k] # "unset"
                             /\ StartsWith(KeyChars(k), NumberChars(unitNumber) \o <<"-">>)}
  IN store' = [store EXCEPT
                 !.answer = IF keys = {} THEN FALSE
                            ELSE \A k \in keys : Truthy(courseProgress[k]),
                 !.op = POp("isUnitComplete", c, UnitFileKeys(unitNumber), unitNumber, FALSE),
                 !.handed = <<>>,
                 !.before = NoFlag,
                 !.twoAgo = NoFlag,
                 !.result = NoResult]

NextProgress ==
  \/ \E c \in PCourses, u \in Units :
       IsUnitComplete(c, u) /\ UNCHANGED <<hookVars, aggVars, viewVars, pageVars>>
  \/ \E c \in PCourses, k \in PKeys :
       ToggleFileComplete(c, k) /\ UNCHANGED <<hookVars, aggVars, viewVars, pageVars>>
  \/ \E c \in PCourses, ks \in KeyLists, b \in BOOLEAN :
       ToggleUnitComplete(c, ks, b) /\ UNCHANGED <<hookVars, aggVars, viewVars, pageVars>>
  \/ \E c \in PCourses, n \in 0..MaxTotal, ks \in KeyLists :
       GetUnitProgress(c, n, ks) /\ UNCHANGED <<hookVars, aggVars, viewVars, pageVars>>
  \/ \E c \in PCourses, n \in 0..MaxTotal, ks \in KeyLists :
       GetCourseProgress(c, n, ks) /\ UNCHANGED <<hookVars, aggVars, viewVars, pageVars>>

SpecProgress == InitProgress /\ [][NextProgress]_vars

\* ------------------------------------------ a unit of the course page
\* (CourseContent).  The unit lists unitFileKeys, one key per material with a
\* file; the keys differ (one per class id), so of the store only the number
\* of listed keys whose flag is truthy matters to the unit's header and
\* button, and the unit is modelled by that number.
MaxMaterials == 200  \* materials of the unit (unitFileKeys.length)

UnitStart(n) ==
  [total |-> n, completed |-> 0, op |-> "init", wasIncomplete |-> FALSE,
   markComplete |-> FALSE]

unitTotal == unit.total                 \* unitFileKeys.length
unitCompleted == unit.completed         \* listed keys whose flag is truthy
unitOp == unit.op                       \* the last button pressed
\* the unit button's last press: was a material incomplete, and the flag it
\* passed to toggleUnitComplete
unitWasIncomplete == unit.wasIncomplete
unitMarkComplete == unit.markComplete

\* getUnitProgress(courseId, unit.unit_number, unitFileKeys.length,
\* unitFileKeys).percentage
UnitPercentage ==
  IF unitTotal > 0 THEN MathRoundPercent(unitCompleted, unitTotal) ELSE 0

InitUnit ==
  /\ InitHook /\ HookIdle
  /\ aggregator = Off /\ view = Off /\ store = Off /\ study = Off
  /\ \E n \in 0..MaxMaterials : unit = UnitStart(n)

\* a material's own button, toggleFileComplete(courseId, fileKey), on a
\* material that is not complete
MarkMaterial ==
  /\ unitCompleted < unitTotal
  /\ unit' = [unit EXCEPT !.completed = unitCompleted + 1, !.op = "mark",
                          !.wasIncomplete = FALSE, !.markComplete = FALSE]

\* the same button on a complete material
UnmarkMaterial ==
  /\ unitCompleted > 0
  /\ unit' = [unit EXCEPT !.completed = unitCompleted - 1, !.op = "unmark",
                          !.wasIncomplete = FALSE, !.markComplete = FALSE]

\* the unit button: toggleUnitComplete gives every listed key the flag
UnitButton ==
  LET markComplete == UnitPercentage < 100
  IN unit' = [unit EXCEPT !.completed = IF markComplete THEN unitTotal ELSE 0,
                          !.op = "unitButton",
                          !.wasIncomplete = unitCompleted < unitTotal,
                          !.markComplete = markComplete]

unitOthers == <<hookVars, progressVars, aggVars, viewVars, study>>

NextUnit ==
  \/ MarkMaterial /\ UNCHANGED unitOthers
  \/ UnmarkMaterial /\ UNCHANGED unitOthers
  \/ UnitButton /\ UNCHANGED unitOthers

SpecUnit == InitUnit /\ [][NextUnit]_vars

\* ------------------------------------------------------ the study page
\* (StudyPage).  The cart's items are known by their ids; an item has a
\* course, a unit number and, unless it is a merged unit file, a file key.
NoKey == "-"                          \* the item has no fileKey
\* a material of unit 1 of c1, the merged file of unit 2 of c1, and a
\* material of unit 1 of c2
StudyItems == {"a", "m", "c"}
ItemCourse(id) == IF id = "c" THEN "c2" ELSE "c1"
ItemUnit(id) == IF id = "m" THEN 2 ELSE 1
ItemKey(id) == IF id = "m" THEN NoKey ELSE "1-1"

\* the carts: the items were added one by one, in any order, none twice
Carts ==
  {s \in UNION {[1..n -> StudyItems] : n \in 1..Cardinality(StudyItems)} :
     \A i, j \in DOMAIN s : s[i] = s[j] => i = j}

\* the indices the rows of a sidebar can have
RowIndices == 0..(Cardinality(StudyItems) - 1)

items == study.items              \* useStudyCart().items, in cart order
activeIndex == study.activeIndex        \* useState activeIndex (0-based)
studyOp == study.op                     \* the last event on the page
\* the courses whose last item the last step removed from the cart
dropped == study.dropped
\* did the last step call toggleFileComplete
marked == study.marked
\* the sync_items messages the last step sent, in order
synced == study.synced

StudyStart(cart) ==
  [items |-> cart, activeIndex |-> 0, op |-> "init", dropped |-> {},
   marked |-> FALSE, synced |-> <<>>]

\* items[index], for a 0-based index below items.length
ItemAt(its, index) == its[index + 1]

\* items[activeIndex]?.courseId || "global"
CurrentCourseId(its, idx) ==
  IF idx < Len(its) THEN ItemCourse(ItemAt(its, idx)) ELSE "global"

\* isFileComplete(courseId, fileKey): progress[courseId]?.[fileKey] ?? false
IsFileComplete(c, k) == Truthy(progress[c][k])

Min(S) == CHOOSE x \in S : \A y \in S : x <= y

\* groupedItems, flattened: the units ascending and within a unit the cart
\* order; the sidebar row with index i shows the (i+1)-th item of it
RECURSIVE GroupedFrom(_, _)
GroupedFrom(its, units) ==
  IF units = {} THEN <<>>
  ELSE LET unitNum == Min(units)
       IN SelectSeq(its, LAMBDA id : ItemUnit(id) = unitNum)
            \o GroupedFrom(its, units \ {unitNum})

GroupedItems(its) == GroupedFrom(its, {ItemUnit(its[i]) : i \in DOMAIN its})

\* items.filter(item => item.courseId === currentCourseId && item.fileKey)
\*      .map(item => item.fileKey)
KeysOf(ids) == [i \in DOMAIN ids |-> ItemKey(ids[i])]
FileKeysForCourse(its, course) ==
  KeysOf(SelectSeq(its, LAMBDA id : ItemCourse(id) = course /\ ItemKey(id) # NoKey))

SyncMsg(sock, course, fileKeys) ==
  [type |-> "sync_items", sock |-> sock, courseId |-> course,
   fileKeys |-> fileKeys]

SyncStudyItemsUnchecked(socks, ref, course, fileKeys) ==
  IF ref # 0 /\ course # "" THEN <<SyncMsg(ref, course, fileKeys)>> ELSE <<>>
\* syncStudyItems(fileKeys) of the render whose courseId is course
SyncStudyItems(socks, ref, course, fileKeys) ==
  IF SocketIsOpen(socks, ref) /\ course # ""
  THEN <<SyncMsg(ref, course, fileKeys)>>
  ELSE <<>>

\* the page's sync effect, in a render with these items, active index and
\* isConnected, run after the hook's effects left socks and ref
SyncEffect(its, idx, conn, socks, ref) ==
  LET currentCourseId == CurrentCourseId(its, idx)
      fileKeysForCourse == FileKeysForCourse(its, currentCourseId)
  IN IF conn /\ currentCourseId # "" /\ currentCourseId # "global"
     THEN IF Len(fileKeysForCourse) > 0
          THEN SyncStudyItems(socks, ref, currentCourseId, fileKeysForCourse)
          ELSE <<>>
     ELSE <<>>

\* The render after an event that left the page with items its and active
\* index idx, and its effects.  The hook is rendered with the new
\* currentCourseId and reruns its connect effect when that changed; then
\* the sync effect runs if one of its dependencies (items, currentCourseId,
\* isConnected, syncStudyItems) changed.
StudyRender(op, its, idx, toggled) ==
  LET c == CurrentCourseId(its, idx)
  IN /\ IF c # courseId
        THEN /\ wsUrlValid => Len(sockets) < MaxSockets
             /\ courseId' = c
             /\ RerunConnectEffect(username, c)
        ELSE UNCHANGED <<courseId, sockets, wsRef, timers, reconnectTimeoutRef,
                         isConnected>>
     /\ study' = [items |-> its, activeIndex |-> idx, op |-> op,
                  dropped |-> {ItemCourse(items[i]) : i \in DOMAIN items}
                                \ {ItemCourse(its[i]) : i \in DOMAIN its},
                  marked |-> toggled,
                  synced |-> IF its # items \/ c # courseId \/ isConnected' # isConnected
                             THEN SyncEffect(its, idx, isConnected', sockets', wsRef')
                             ELSE <<>>]

\* what an event of the page leaves alone in the hook when it calls none of
\* the hook's functions
studyQuiet == <<leaderboard, identityVars, lsUsername, phase, wsUrlValid, username,
                pendingUpdatesRef, wire, queuedLog, nextSeq, lastFor>>

\* a sidebar row is clicked: setActiveIndex(index), index being the row's
\* position in the grouped list
SelectItem(index) ==
  /\ phase = "mounted"
  /\ index \in 0..(Len(items) - 1)
  /\ StudyRender("select", items, index, FALSE)
  /\ sent' = <<>>
  /\ lastOp' = Op("select", EmptyName, NoField, FALSE)
  /\ received' = NoMsg
  /\ UNCHANGED <<studyQuiet, outside>>

\* goToPrev; the button is disabled on the first item
GoToPrev ==
  /\ phase = "mounted"
  /\ items # <<>>
  /\ activeIndex # 0
  /\ StudyRender("prev", items, IF activeIndex - 1 > 0 THEN activeIndex - 1 ELSE 0,
                 FALSE)
  /\ sent' = <<>>
  /\ lastOp' = Op("prev", EmptyName, NoField, FALSE)
  /\ received' = NoMsg
  /\ UNCHANGED <<studyQuiet, outside>>

\* the hook's requestLeaderboardUpdate()
RequestLeaderboardUpdate ==
  IF SocketIsOpen(sockets, wsRef) /\ courseId # ""
  THEN <<RequestLeaderboardMsg(wsRef, courseId)>>
  ELSE <<>>

\* does goToNext call toggleFileComplete for the active item
MarksAlways(id) == ItemKey(id) # NoKey
MarksIfIncomplete(id) ==
  ItemKey(id) # NoKey /\ ~IsFileComplete(ItemCourse(id), ItemKey(id))

\* goToNext; the button is disabled on the last item.  toggleFileComplete
\* hands the update to the hook's sendProgressUpdate (through
\* window.__sendProgressUpdate), which sends or queues it; then
\* requestLeaderboardUpdate() and setActiveIndex.
GoToNext ==
  LET activeItem == ItemAt(items, activeIndex)
      last == Len(items) - 1
  IN /\ phase = "mounted"
     /\ items # <<>>
     /\ activeIndex # last
     /\ IF MarksIfIncomplete(activeItem)
        THEN /\ nextSeq < MaxUpdates
             /\ ToggleFileComplete(ItemCourse(activeItem), ItemKey(activeItem))
             /\ nextSeq' = nextSeq + 1
             /\ LET update == Update(courseId, handed'[1].fileKey,
                                     handed'[1].isComplete, nextSeq + 1)
                IN IF SocketIsOpen(sockets, wsRef)
                   THEN /\ sent' = <<ProgressMsg(wsRef, update, username)>>
                                     \o RequestLeaderboardUpdate
                        /\ wire' = Append(wire, update.seq)
                        /\ UNCHANGED <<pendingUpdatesRef, queuedLog>>
                   ELSE /\ sent' = RequestLeaderboardUpdate
                        /\ pendingUpdatesRef' = Enqueue(pendingUpdatesRef, update)
                        /\ queuedLog' = Append(queuedLog, update.seq)
                        /\ UNCHANGED wire
        ELSE /\ sent' = RequestLeaderboardUpdate
             /\ UNCHANGED <<store, nextSeq, pendingUpdatesRef, wire, queuedLog>>
     /\ StudyRender("next", items,
                    IF last < activeIndex + 1 THEN last ELSE activeIndex + 1,
                    MarksIfIncomplete(activeItem))
     /\ lastOp' = Op("next", EmptyName, NoField, FALSE)
     /\ received' = NoMsg
     /\ UNCHANGED <<leaderboard, identityVars, lsUsername, phase, wsUrlValid,
                    username, lastFor, aggVars, viewVars, unit>>

\* removeItem(id) of the cart
RemoveFromCart(its, id) == SelectSeq(its, LAMBDA x : x # id)

\* a row's remove button: removeItem(item.id), and the active index moves
\* back if the row's index is not after it
RemoveItem(index) ==
  /\ phase = "mounted"
  /\ index \in 0..(Len(items) - 1)
  /\ LET item == ItemAt(GroupedItems(items), index)
         its == RemoveFromCart(items, item)
     IN StudyRender("remove", its,
                    IF index <= activeIndex /\ activeIndex > 0
                    THEN activeIndex - 1 ELSE activeIndex,
                    FALSE)
  /\ sent' = <<>>
  /\ lastOp' = Op("remove", EmptyName, NoField, FALSE)
  /\ received' = NoMsg
  /\ UNCHANGED <<studyQuiet, outside>>

\* the Clear button: clearCart(); the active index stays
ClearCart ==
  /\ phase = "mounted"
  /\ items # <<>>
  /\ StudyRender("clear", <<>>, activeIndex, FALSE)
  /\ sent' = <<>>
  /\ lastOp' = Op("clear", EmptyName, NoField, FALSE)
  /\ received' = NoMsg
  /\ UNCHANGED <<studyQuiet, outside>>

\* an event of the hook on the study page: the hook's action and, if it
\* changed isConnected, the render and the sync effect that follow
StudyHookEvent(op) ==
  study' = [study EXCEPT
                 !.op = op,
                 !.dropped = {},
                 !.marked = FALSE,
                 !.synced = IF isConnected' # isConnected
                            THEN SyncEffect(items, activeIndex, isConnected',
                                            sockets', wsRef')
                            ELSE <<>>]

InitStudy ==
  /\ InitHook
  /\ wsUrlValid
  /\ \E cart \in Carts :
       /\ study = StudyStart(cart)
       /\ courseId = CurrentCourseId(cart, 0)
  /\ store = StoreStart
  /\ aggregator = Off /\ view = Off /\ unit = Off

NextStudy ==
  \/ Mount /\ StudyHookEvent("mount")
  \/ \E i \in 1..MaxSockets : SocketOpen(i) /\ StudyHookEvent("open")
  \/ \E i \in 1..MaxSockets : SocketClose(i) /\ StudyHookEvent("close")
  \/ \E i \in 1..MaxSockets : ReconnectTimer(i) /\ StudyHookEvent("reconnectTimer")
  \/ \E index \in RowIndices : SelectItem(index)
  \/ GoToPrev
  \/ GoToNext
  \/ \E index \in RowIndices : RemoveItem(index)
  \/ ClearCart

SpecStudy == InitStudy /\ [][NextStudy]_vars

\* ------------------------------------------------------- the aggregator
\* percentage = round(completed / total * 100), 0 when total = 0
AggPercentage(completed, total) ==
  IF total > 0 THEN (200 * completed + total) \div (2 * total) ELSE 0

\* the LeaderboardEntry derived from user u's entry e
EntryOf(u, e) ==
  Entry(u, Cardinality(e.keys), e.total, AggPercentage(Cardinality(e.keys), e.total))

\* position of u in the tie rule order (a sequence of users)
TiePos(order, u) == CHOOSE i \in DOMAIN order : order[i] = u

\* a ranks before b: percentage descending, then completed descending, then
\* the tie rule
RanksBefore(a, b, order) ==
  \/ a.percentage > b.percentage
  \/ a.percentage = b.percentage /\ a.completed > b.completed
  \/ /\ a.percentage = b.percentage
     /\ a.completed = b.completed
     /\ TiePos(order, a.userId) < TiePos(order, b.userId)

\* the entries es (a set, one entry per user) as a sequence in ranking order
RECURSIVE RankSeq(_, _)
RankSeq(es, order) ==
  IF es = {} THEN <<>>
  ELSE LET first == CHOOSE a \in es : \A b \in es \ {a} : RanksBefore(a, b, order)
       IN <<first>> \o RankSeq(es \ {first}, order)

RankingRequesterFirst(agg, course) ==
  RankSeq({EntryOf(u, agg[course][u]) : u \in {v \in Ids : agg[course][v].present}},
          IF aggOp.conn = 2 THEN <<"u2", "u1">> ELSE <<"u1", "u2">>)

\* the full ranking of a course in aggregate agg
Ranking(agg, course) ==
  RankSeq({EntryOf(u, agg[course][u]) : u \in {v \in Ids : agg[course][v].present}},
          tieOrder)

LeaderboardUpdate(to, agg, course) ==
  [to |-> to, type |-> "leaderboard_update", courseId |-> course,
   board |-> Ranking(agg, course)]

\* one leaderboard_update per connection subscribed to course, in connection order
RECURSIVE BroadcastTo(_, _, _)
BroadcastTo(cs, agg, course) ==
  IF cs = {} THEN <<>>
  ELSE LET c == CHOOSE x \in cs : \A y \in cs : x <= y
       IN <<LeaderboardUpdate(c, agg, course)>> \o BroadcastTo(cs \ {c}, agg, course)

Subscribers(conns, course) == {c \in Conns : course \in conns[c].subs}

ApplyUpdateToggle(e, fileKey, isComplete, name, total) ==
  [present |-> TRUE,
   username |-> name,
   keys |-> IF fileKey \in e.keys THEN e.keys \ {fileKey} ELSE e.keys \cup {fileKey},
   total |-> IF total # NoTotal THEN total ELSE e.total]

\* the entry after progress_update {fileKey, isComplete, username, total}
ApplyUpdate(e, fileKey, isComplete, name, total) ==
  [present |-> TRUE,
   username |-> name,
   keys |-> IF isComplete THEN e.keys \cup {fileKey} ELSE e.keys \ {fileKey},
   total |-> IF total # NoTotal THEN total ELSE e.total]

\* a channel connects as /ws/{userId}: handshake acknowledgement
AggConnect(c) ==
  /\ ~aggConns[c].open
  /\ aggregator' = [aggregator EXCEPT
       !.conns = [aggConns EXCEPT ![c] = [open |-> TRUE, subs |-> {}]],
       !.outbox = <<[to |-> c, type |-> "connected", courseId |-> NoField, board |-> <<>>]>>,
       !.op = AggOpOf("connect", c, NoField, NoField, FALSE, NoTotal)]

AggDisconnectKeepsSubs(c) ==
  /\ aggConns[c].open
  /\ aggregator' = [aggregator EXCEPT
       !.conns = [aggConns EXCEPT ![c].open = FALSE],
       !.outbox = <<>>,
       !.op = AggOpOf("disconnect", c, NoField, NoField, FALSE, NoTotal)]

\* the connection closes: its subscriptions are cleared, the aggregate stays
AggDisconnect(c) ==
  /\ aggConns[c].open
  /\ aggregator' = [aggregator EXCEPT
       !.conns = [aggConns EXCEPT ![c] = [open |-> FALSE, subs |-> {}]],
       !.outbox = <<>>,
       !.op = AggOpOf("disconnect", c, NoField, NoField, FALSE, NoTotal)]

\* progress_update {courseId, fileKey, isComplete, username} with an
\* accompanying total or none, from connection c
AggProgressUpdate(c, course, fileKey, isComplete, name, total) ==
  /\ aggConns[c].open
  /\ aggCount < MaxAggUpdates
  /\ LET updated == [aggregate EXCEPT ![course][UserOf(c)] =
                        ApplyUpdate(@, fileKey, isComplete, name, total)]
         handled == AggOpOf("progress_update", c, course, fileKey, isComplete, total)
     IN aggregator' = [aggregator EXCEPT
          !.count = aggCount + 1,
          !.aggregate = updated,
          !.outbox = BroadcastTo(Subscribers(aggConns, course), updated, course),
          !.op = handled,
          !.totalSupplied = (totalSupplied \/ total # NoTotal),
          !.repeated = (handled = aggOp)]

\* the progress_update this repository's client sends: the message of
\* sendProgressUpdate / the onopen flush, which has no total
ClientProgressUpdate(c, course, fileKey, isComplete, name) ==
  LET m == ProgressMsg(c, Update(course, fileKey, isComplete, 0), name)
  IN AggProgressUpdate(c, m.courseId, m.fileKey, m.isComplete, m.username, NoTotal)

\* set_username {username}: rename across the user's entries, no recompute
AggSetUsername(c, name) ==
  /\ aggConns[c].open
  /\ aggregator' = [aggregator EXCEPT
       !.aggregate = [course \in Courses |->
                        [u \in Ids |->
                           IF u = UserOf(c) /\ aggregate[course][u].present
                           THEN [aggregate[course][u] EXCEPT !.username = name]
                           ELSE aggregate[course][u]]],
       !.outbox = <<>>,
       !.op = AggOpOf("set_username", c, NoField, NoField, FALSE, NoTotal)]

\* request_leaderboard {courseId}: subscribe the connection, reply at once
AggRequestLeaderboard(c, course) ==
  /\ aggConns[c].open
  /\ aggregator' = [aggregator EXCEPT
       !.conns = [aggConns EXCEPT ![c].subs = @ \cup {course}],
       !.outbox = <<LeaderboardUpdate(c, aggregate, course)>>,
       !.op = AggOpOf("request_leaderboard", c, course, NoField, FALSE, NoTotal)]

\* a malformed message is dropped and logged
AggMalformed(c) ==
  /\ aggConns[c].open
  /\ aggregator' = [aggregator EXCEPT
       !.outbox = <<>>,
       !.op = AggOpOf("malformed", c, NoField, NoField, FALSE, NoTotal)]

NextAgg ==
  \/ \E c \in Conns : AggConnect(c) /\ UNCHANGED <<hookVars, progressVars, viewVars, pageVars>>
  \/ \E c \in Conns : AggDisconnect(c) /\ UNCHANGED <<hookVars, progressVars, viewVars, pageVars>>
  \/ \E c \in Conns, course \in AggCourses, k \in AggKeys, b \in BOOLEAN, n \in AggNames :
       ClientProgressUpdate(c, course, k, b, n) /\ UNCHANGED <<hookVars, progressVars, viewVars, pageVars>>
  \/ \E c \in Conns, course \in AggCourses, k \in AggKeys, b \in BOOLEAN, n \in AggNames :
       AggProgressUpdate(c, course, k, b, n, CourseTotal)
         /\ UNCHANGED <<hookVars, progressVars, viewVars, pageVars>>
  \/ \E c \in Conns, n \in AggNames :
       AggSetUsername(c, n) /\ UNCHANGED <<hookVars, progressVars, viewVars, pageVars>>
  \/ \E c \in Conns, course \in Courses :
       AggRequestLeaderboard(c, course) /\ UNCHANGED <<hookVars, progressVars, viewVars, pageVars>>
  \/ \E c \in Conns : AggMalformed(c) /\ UNCHANGED <<hookVars, progressVars, viewVars, pageVars>>

SpecAgg == InitAgg /\ [][NextAgg]_vars

\* ------------------------------------------- the leaderboard components
ViewUsers == {"u1", "u2", "u3", "u4"}
\* completed, total, percentage of an entry
ViewStats == {<<0, 2, 0>>, <<1, 2, 50>>, <<2, 4, 50>>, <<2, 2, 100>>}
EntryPool == {Entry(u, s[1], s[2], s[3]) : u \in ViewUsers, s \in ViewStats}

\* leaderboards with one entry per user, in any order
ViewLists ==
  {es \in UNION {[1..n -> EntryPool] : n \in 0..MaxEntries} :
     \A i, j \in DOMAIN es : es[i].userId = es[j].userId => i = j}

\* sets of entries, one per user, and the tie rules a server may use
ViewSets == {S \in SUBSET EntryPool :
               /\ Cardinality(S) <= MaxEntries
               /\ \A a, b \in S : a.userId = b.userId => a = b}
ViewTieOrders ==
  {o \in [1..Cardinality(ViewUsers) -> ViewUsers] : \A i, j \in DOMAIN o : o[i] = o[j] => i = j}

TopShown == 5        \* CompactLeaderboard shows the first five

CompareEntriesByCompleted(a, b) == b.completed - a.completed

\* the comparator of CompactLeaderboard's sort
CompareEntries(a, b) ==
  IF b.percentage # a.percentage
  THEN b.percentage - a.percentage
  ELSE b.completed - a.completed

\* e inserted into the sorted sequence s behind every element that does not
\* compare greater: Array.prototype.sort is stable
InsertSorted(s, e) ==
  LET after == {i \in DOMAIN s : CompareEntries(s[i], e) > 0}
      pos == IF after = {} THEN Len(s) + 1
             ELSE CHOOSE i \in after : \A j \in after : i <= j
  IN SubSeq(s, 1, pos - 1) \o <<e>> \o SubSeq(s, pos, Len(s))

\* [...entries].sort(comparator)
RECURSIVE SortEntries(_)
SortEntries(es) ==
  IF es = <<>> THEN <<>>
  ELSE InsertSorted(SortEntries(SubSeq(es, 1, Len(es) - 1)), es[Len(es)])

\* rows: rank = index + 1 (the index is 0-based in the code)
Rows(es) == [i \in DOMAIN es |-> [rank |-> i, entry |-> es[i]]]

\* CompactLeaderboard({entries, currentUserId})
RenderCompact(entries, currentUserId) ==
  LET sortedEntries == SortEntries(entries)
      topEntries == SubSeq(sortedEntries, 1,
                           IF Len(sortedEntries) < TopShown THEN Len(sortedEntries)
                           ELSE TopShown)
  IN /\ viewOp = "init"
     /\ view' = [op |-> "CompactLeaderboard",
                 entries |-> entries,
                 shown |-> Rows(topEntries),
                 userRank |-> IF \E i \in DOMAIN entries : entries[i].userId = currentUserId
                              THEN FindIndex(sortedEntries, currentUserId) + 1
                              ELSE 0]

\* Leaderboard({entries}): the rows are the entries in the order received
RenderLeaderboard(entries) ==
  /\ viewOp = "init"
  /\ view' = [op |-> "Leaderboard", entries |-> entries, shown |-> Rows(entries),
              userRank |-> 0]

\* the component is taken off the page
Unrender ==
  /\ viewOp # "init"
  /\ view' = NoView

NextView ==
  \/ Unrender /\ UNCHANGED <<hookVars, progressVars, aggVars, pageVars>>
  \/ \E es \in ViewLists :
       RenderCompact(es, "u1") /\ UNCHANGED <<hookVars, progressVars, aggVars, pageVars>>
  \/ \E S \in ViewSets, o \in ViewTieOrders :
       RenderLeaderboard(RankSeq(S, o)) /\ UNCHANGED <<hookVars, progressVars, aggVars, pageVars>>

SpecView == InitView /\ [][NextView]_vars

\* ------------------------------------------------------------ properties

LiveSockets == {i \in DOMAIN sockets : sockets[i].st \in {"CONNECTING", "OPEN"}}

RefIsOpen == wsRef # 0 /\ sockets[wsRef].st = "OPEN"

IsBlankName(name) == \A k \in DOMAIN name : name[k] = " "

WasQueued(n) == \E k \in DOMAIN queuedLog : queuedLog[k] = n

PendingSeqs == [k \in DOMAIN pendingUpdatesRef |-> pendingUpdatesRef[k].seq]

\* C1: the updates that were queued while the channel's socket was not open
\* are, at every moment, exactly the queued updates already sent followed by
\* the ones still pending, in the order they were issued (none dropped,
\* duplicated or reordered), and right after a connection has opened none of
\* them is still pending.
C1_OfflineQueueDeliveredInOrderOnce ==
  /\ SelectSeq(wire, WasQueued) \o PendingSeqs = queuedLog
  /\ lastOp.op = "open" => pendingUpdatesRef = <<>>

\* two updates were queued and a later connection of the channel delivered both
C1_Witness ==
  /\ lastOp.op = "open"
  /\ queuedLog = <<1, 2>>
  /\ wire = <<1, 2>>
  /\ Len(sent) = 3
  /\ Len(sockets) >= 2

\* C2: at every moment at most one connecting or open connection exists.
C2_AtMostOneLiveConnection == Cardinality(LiveSockets) <= 1

\* C3: once the hook's cleanup has run (the component is unmounted), no new
\* connection is created and no request_leaderboard is sent.
C3_NothingAfterCleanup ==
  [][(phase = "unmounted" /\ phase' = "unmounted") =>
       /\ Len(sockets') = Len(sockets)
       /\ \A k \in DOMAIN sent' : sent'[k].type # "request_leaderboard"]_vars

\* C4: a mounted channel with an identity that is disconnected (no socket
\* connecting or open) always has a further connection attempt on its way:
\* a close event still to be delivered or a reconnect timer armed.
C4_DisconnectedHasAttemptScheduled ==
  (phase = "mounted" /\ userId # NoId /\ LiveSockets = {}) =>
    \/ timers # {}
    \/ \E i \in DOMAIN sockets : sockets[i].st = "CLOSING"

\* C5: the open handler sends the pending updates in queue order, then one
\* request_leaderboard for the current course, and leaves the queue empty.
C5_OpenFlushesThenRequestsCurrentCourse ==
  [][lastOp'.op = "open" =>
       /\ Len(sent') = Len(pendingUpdatesRef) + 1
       /\ \A k \in DOMAIN pendingUpdatesRef :
            /\ sent'[k].type = "progress_update"
            /\ sent'[k].seq = pendingUpdatesRef[k].seq
            /\ sent'[k].fileKey = pendingUpdatesRef[k].fileKey
            /\ sent'[k].isComplete = pendingUpdatesRef[k].isComplete
            /\ sent'[k].courseId = pendingUpdatesRef[k].courseId
       /\ sent'[Len(sent')].type = "request_leaderboard"
       /\ sent'[Len(sent')].courseId = courseId'
       /\ pendingUpdatesRef' = <<>>]_vars

\* C6: every update flushed by the open handler carries the username that is
\* current (in the hook's state and in localStorage) at that moment.
C6_FlushCarriesCurrentUsername ==
  lastOp.op = "open" =>
    \A k \in DOMAIN sent :
      sent[k].type = "progress_update" =>
        sent[k].username = username /\ sent[k].username = lsUsername

\* C7: sendProgressUpdate(fileKey, isComplete) sends exactly one
\* progress_update {courseId, fileKey, isComplete, username} on the open
\* socket and leaves the queue alone, or else sends nothing and appends
\* {courseId, fileKey, isComplete} at the tail of the queue.
C7_SendOrEnqueue ==
  [][lastOp'.op = "sendProgressUpdate" =>
       IF RefIsOpen
       THEN /\ Len(sent') = 1
            /\ sent'[1].type = "progress_update"
            /\ sent'[1].sock = wsRef
            /\ sent'[1].courseId = courseId
            /\ sent'[1].fileKey = lastOp'.key
            /\ sent'[1].isComplete = lastOp'.flag
            /\ sent'[1].username = username
            /\ pendingUpdatesRef' = pendingUpdatesRef
       ELSE /\ sent' = <<>>
            /\ Len(pendingUpdatesRef') = Len(pendingUpdatesRef) + 1
            /\ SubSeq(pendingUpdatesRef', 1, Len(pendingUpdatesRef)) = pendingUpdatesRef
            /\ LET last == pendingUpdatesRef'[Len(pendingUpdatesRef')]
               IN /\ last.courseId = courseId
                  /\ last.fileKey = lastOp'.key
                  /\ last.isComplete = lastOp'.flag]_vars

\* an update was sent directly after an earlier one had been queued
C7_Witness ==
  /\ lastOp.op = "sendProgressUpdate"
  /\ Len(sent) = 1
  /\ sent[1].username = <<"a">>
  /\ queuedLog # <<>>

\* C8: updateUsername (and the dialog's handler) with an empty or
\* whitespace-only name changes neither the username in memory, nor the
\* stored one, nor the connection, and sends nothing.
C8_BlankRenameIsNoOp ==
  [][(lastOp'.op \in {"updateUsername", "handleUpdateUsername"}
        /\ IsBlankName(lastOp'.name)) =>
       /\ UNCHANGED <<username, lsUsername, sockets, wsRef, isConnected, timers>>
       /\ sent' = <<>>]_vars

\* a whitespace-only rename was attempted while the socket was open
C8_Witness ==
  /\ lastOp.op = "updateUsername"
  /\ lastOp.name = <<" ">>
  /\ RefIsOpen
  /\ isConnected

\* C9: updateUsername with a non-blank name sets the username in memory and
\* the stored one, and when the socket is open sends exactly one
\* set_username on it, the connection being neither closed nor replaced.
C9_RenameKeepsConnection ==
  [][(lastOp'.op = "updateUsername" /\ ~IsBlankName(lastOp'.name)) =>
       /\ username' = lastOp'.name
       /\ lsUsername' = lastOp'.name
       /\ RefIsOpen =>
            /\ sent' = <<[type |-> "set_username", sock |-> wsRef,
                          courseId |-> NoField, fileKey |-> NoField,
                          isComplete |-> FALSE, username |-> lastOp'.name,
                          seq |-> 0]>>
            /\ sockets' = sockets
            /\ wsRef' = wsRef]_vars

\* C10: a stored user id is never replaced, and every mount yields a user id
\* that is stored and is the one that was stored before, if any.
C10_UserIdGeneratedOnce ==
  [][/\ lsUserId # NoId => lsUserId' = lsUserId
     /\ lastOp'.op = "mount" =>
          /\ userId' # NoId
          /\ userId' = lsUserId'
          /\ lsUserId # NoId => userId' = lsUserId]_vars

\* a mount in a later session, after a rename in an earlier one
C10_Witness ==
  /\ lastOp.op = "mount"
  /\ username = <<"a">>
  /\ userId = lsUserId
  /\ userId # NoId

\* ------------------------------------------------ properties, second part

IsProgressQuery == progOp.op \in {"getUnitProgress", "getCourseProgress"}

\* the number of positions of the queried key list whose key is marked complete
QueriedCompleted ==
  Cardinality({i \in DOMAIN progOp.keys : progress[progOp.course][progOp.keys[i]] = "true"})

\* p is num / den * 100 rounded to the nearest integer, halves up
IsRoundedPercent(p, num, den) ==
  /\ 2 * den * p <= 200 * num + den
  /\ 200 * num + den < 2 * den * (p + 1)

PositionIn(entries, uid) ==
  IF \E i \in DOMAIN entries : entries[i].userId = uid
  THEN CHOOSE i \in DOMAIN entries :
         /\ entries[i].userId = uid
         /\ \A j \in DOMAIN entries : entries[j].userId = uid => i <= j
  ELSE 0

\* C11: whenever the hook renders, currentUserRank is the 1-based position of
\* the local userId in the last leaderboard received for the current course,
\* and null (0) if none was received, the user has no entry in it or there
\* is no userId yet.
C11_RankIsPositionInLastReceived ==
  (phase = "mounted" /\ leaderboard.isArray) =>
    currentUserRank(userId, leaderboard.entries) =
      IF userId # NoId /\ courseId \in DOMAIN lastFor
      THEN PositionIn(lastFor[courseId], userId)
      ELSE 0

\* C14: when a user has completed three materials of course c1 (which has
\* CourseTotal materials) through the progress_update messages this client
\* sends and nothing else, the aggregator's entry for (c1, user) has
\* completed = 3, total = 10, percentage = 30, and the ranking just broadcast
\* to every subscriber of c1 carries that entry.
C14_ThreeOfTenIsThirtyPercent ==
  (/\ aggOp.op = "progress_update"
   /\ aggOp.course = "c1"
   /\ ~totalSupplied
   /\ Cardinality(aggregate["c1"][UserOf(aggOp.conn)].keys) = 3) =>
    LET u == UserOf(aggOp.conn)
        e == aggregate["c1"][u]
        shown == [userId |-> u, completed |-> 3, total |-> 10, percentage |-> 30]
    IN /\ e.total = 10
       /\ \A s \in Conns :
            "c1" \in aggConns[s].subs =>
              \E k \in DOMAIN outbox :
                /\ outbox[k].to = s
                /\ outbox[k].courseId = "c1"
                /\ \E j \in DOMAIN outbox[k].board : outbox[k].board[j] = shown

\* C15: a progress_update that repeats the one handled just before it (same
\* user, course, fileKey, isComplete, total) leaves the whole aggregate, and
\* so every completed count and percentage, as the first application left it;
\* an entry's completed count is the number of distinct keys it holds.
C15_ProgressUpdateIdempotent ==
  [][(aggOp'.op = "progress_update" /\ repeated') =>
       /\ aggregate' = aggregate
       /\ \A course \in Courses :
            /\ Ranking(aggregate', course) = Ranking(aggregate, course)
            /\ \A u \in Ids :
                 EntryOf(u, aggregate'[course][u]).completed
                   = Cardinality(aggregate'[course][u].keys)]_vars

\* the same completion handled twice in a row: the key is held once
C15_Witness ==
  /\ aggOp.op = "progress_update"
  /\ repeated
  /\ aggOp.flag
  /\ aggregate[aggOp.course][UserOf(aggOp.conn)].keys = {aggOp.key}
  /\ EntryOf(UserOf(aggOp.conn), aggregate[aggOp.course][UserOf(aggOp.conn)]).completed = 1

\* C19: request_leaderboard {courseId} adds the course to the sending
\* connection's subscriptions, keeping those it has, and the only message
\* sent is the current ranking of that course to that connection; a
\* disconnect leaves the connection with no subscription; no message is ever
\* addressed to a closed connection, and a closed connection has no
\* subscription.
C19_SubscribeReplyAndClear ==
  [][/\ aggOp'.op = "request_leaderboard" =>
          /\ aggConns'[aggOp'.conn].subs = aggConns[aggOp'.conn].subs \cup {aggOp'.course}
          /\ outbox' = <<[to |-> aggOp'.conn, type |-> "leaderboard_update",
                          courseId |-> aggOp'.course,
                          board |-> Ranking(aggregate, aggOp'.course)]>>
     /\ aggOp'.op = "disconnect" => aggConns'[aggOp'.conn].subs = {}
     /\ \A k \in DOMAIN outbox' : aggConns'[outbox'[k].to].open
     /\ \A c \in Conns : ~aggConns'[c].open => aggConns'[c].subs = {}]_vars

\* a connection already subscribed to c2 requests c1 and gets c1's ranking
C19_Witness ==
  /\ aggOp.op = "request_leaderboard"
  /\ aggOp.course = "c1"
  /\ aggConns[aggOp.conn].subs = {"c1", "c2"}
  /\ Len(outbox) = 1
  /\ outbox[1].to = aggOp.conn
  /\ outbox[1].board # <<>>
  /\ \E c \in Conns : ~aggConns[c].open

\* C13: in the rows a leaderboard component displays, an entry with a greater
\* percentage stands before one with a smaller, among equal percentages one
\* with a greater completed count stands first, the rank shown is the 1-based
\* position, and the rows are the received entries (CompactLeaderboard: the
\* first five of them).
C13_DisplayedInRankingOrder ==
  viewOp # "init" =>
    /\ \A i, j \in DOMAIN viewShown :
         i < j =>
           /\ viewShown[i].entry.percentage >= viewShown[j].entry.percentage
           /\ viewShown[i].entry.percentage = viewShown[j].entry.percentage
                => viewShown[i].entry.completed >= viewShown[j].entry.completed
    /\ \A i \in DOMAIN viewShown : viewShown[i].rank = i
    /\ Len(viewShown) = IF Len(viewEntries) < 5 THEN Len(viewEntries) ELSE 5
    /\ \A i \in DOMAIN viewShown : \E k \in DOMAIN viewEntries : viewEntries[k] = viewShown[i].entry
    /\ \A i, j \in DOMAIN viewShown : viewShown[i].entry = viewShown[j].entry => i = j

\* CompactLeaderboard got 50% (1 of 2), 100%, 50% (2 of 4) and shows
\* 100%, 50% (2 of 4), 50% (1 of 2)
C13_Witness ==
  /\ viewOp = "CompactLeaderboard"
  /\ viewEntries = <<Entry("u1", 1, 2, 50), Entry("u2", 2, 2, 100), Entry("u3", 2, 4, 50)>>
  /\ viewShown = <<[rank |-> 1, entry |-> Entry("u2", 2, 2, 100)],
                   [rank |-> 2, entry |-> Entry("u3", 2, 4, 50)],
                   [rank |-> 3, entry |-> Entry("u1", 1, 2, 50)]>>
  /\ viewUserRank = 3

\* a message that is no JSON text, or a leaderboard_update that lacks its
\* leaderboard array
IsMalformed(m) ==
  \/ m.kind = "unparseable"
  \/ m.kind = "leaderboard_update" /\ ~m.board.isArray

\* C16: handling a malformed message changes neither the exposed leaderboard
\* nor the connection state nor the pending queue, and leaves every socket
\* as it was (the connection stays open and keeps receiving).
C16_MalformedMessageDropped ==
  [][(lastOp'.op = "message" /\ IsMalformed(received'[1].msg)) =>
       /\ leaderboard' = leaderboard
       /\ isConnected' = isConnected
       /\ pendingUpdatesRef' = pendingUpdatesRef
       /\ sockets' = sockets
       /\ wsRef' = wsRef]_vars

\* C17: whenever the mounted channel's connection (the socket in wsRef) is
\* open, the poll interval is active; a poll tick with the connection open
\* sends exactly one request_leaderboard for the current course over it, and
\* a poll tick without an open connection sends nothing.
C17_PollActiveWhileOpen ==
  [][/\ (phase' = "mounted" /\ wsRef' # 0 /\ sockets'[wsRef'].st = "OPEN" /\ courseId' # "")
          => isConnected'
     /\ lastOp'.op = "pollTick" =>
          IF wsRef # 0 /\ sockets[wsRef].st = "OPEN"
          THEN sent' = <<[type |-> "request_leaderboard", sock |-> wsRef,
                          courseId |-> courseId, fileKey |-> NoField,
                          isComplete |-> FALSE, username |-> EmptyName, seq |-> 0]>>
          ELSE sent' = <<>>]_vars

\* C18: a leaderboard_update carrying a leaderboard array, received by the
\* mounted hook, replaces the exposed leaderboard if its courseId is the
\* course the hook is currently used for, and leaves it unchanged otherwise.
C18_SnapshotReplacesIffCurrentCourse ==
  [][(/\ lastOp'.op = "message"
      /\ received'[1].msg.kind = "leaderboard_update"
      /\ received'[1].msg.board.isArray
      /\ phase = "mounted") =>
       IF received'[1].msg.courseId = courseId
       THEN leaderboard' = received'[1].msg.board
       ELSE leaderboard' = leaderboard]_vars

\* the users with an entry for course in aggregate agg
Ranked(agg, course) == {u \in Ids : agg[course][u].present}

\* their entries in ranking order under tie rule order
RankedBy(agg, order, course) ==
  RankSeq({EntryOf(u, agg[course][u]) : u \in Ranked(agg, course)}, order)

IsFileToggle == progOp.op = "toggleFileComplete"

\* C21: toggleFileComplete(courseId, fileKey) flips the completion flag of
\* that file, changes no other flag of any course, and hands exactly one
\* update, carrying the file and its new flag, to the sync channel; a second
\* toggle of the same file right after the first brings the file's
\* completion state back to what it was.
C21_ToggleFlipsOneFlag ==
  /\ [][progOp'.op = "toggleFileComplete" =>
          LET c == progOp'.course
              k == progOp'.keys[1]
          IN /\ (progress'[c][k] = "true") = ~(progress[c][k] = "true")
             /\ progress'[c][k] \in {"true", "false"}
             /\ \A c2 \in PCourses, k2 \in PKeys :
                  (c2 # c \/ k2 # k) => progress'[c2][k2] = progress[c2][k2]
             /\ handed' = <<[courseId |-> c, fileKey |-> k,
                             isComplete |-> (progress'[c][k] = "true")]>>
             /\ flagTwoAgo' # NoFlag =>
                  (progress'[c][k] = "true") = (flagTwoAgo' = "true")]_vars

\* a file marked complete by one toggle and incomplete again by the next
C21_Witness ==
  /\ IsFileToggle
  /\ flagBefore = "true"
  /\ flagTwoAgo = "unset"
  /\ progress[progOp.course][progOp.keys[1]] = "false"
  /\ handed = <<[courseId |-> progOp.course, fileKey |-> progOp.keys[1], isComplete |-> FALSE]>>

\* C22: toggleUnitComplete(courseId, fileKeys, markComplete) sets the flag of
\* every listed key to markComplete, changes no other key and no other
\* course, and hands one update per listed key, in list order, each with
\* isComplete = markComplete, whether or not the key's flag changed.
C22_UnitToggleSetsListedKeys ==
  [][progOp'.op = "toggleUnitComplete" =>
       LET c == progOp'.course
           ks == progOp'.keys
           listed == {ks[i] : i \in DOMAIN ks}
       IN /\ \A k \in listed : progress'[c][k] = IF progOp'.flag THEN "true" ELSE "false"
          /\ \A c2 \in PCourses, k2 \in PKeys :
               (c2 # c \/ k2 \notin listed) => progress'[c2][k2] = progress[c2][k2]
          /\ Len(handed') = Len(ks)
          /\ \A i \in DOMAIN ks :
               handed'[i] = [courseId |-> c, fileKey |-> ks[i], isComplete |-> progOp'.flag]]_vars

\* a unit marked complete of which a file already was: two updates all the same
C22_Witness ==
  /\ progOp.op = "toggleUnitComplete"
  /\ flagBefore = "kept"
  /\ progOp.flag
  /\ Len(progOp.keys) = 2
  /\ Len(handed) = 2
  /\ handed[1].fileKey = progOp.keys[1]
  /\ handed[2].fileKey = progOp.keys[2]
  /\ handed[1].isComplete /\ handed[2].isComplete

\* C23: isConnected is true exactly when the channel's current socket (the
\* one in wsRef) is open: never false while it is open, never true while it
\* is not.
C23_ConnectedIffCurrentSocketOpen ==
  phase = "mounted" =>
    (isConnected <=> (wsRef # 0 /\ sockets[wsRef].st = "OPEN"))

\* C24: every leaderboard the mounted hook exposes is empty or is the last
\* leaderboard array received for the course the hook is used for now; in
\* particular it is never one received for a previous course.
C24_LeaderboardIsOfCurrentCourse ==
  (phase = "mounted" /\ leaderboard.isArray) =>
    \/ leaderboard.entries = <<>>
    \/ courseId \in DOMAIN lastFor /\ leaderboard.entries = lastFor[courseId]

\* C25: isUnitComplete(courseId, unitNumber) is true exactly when the unit
\* has materials and every one of them is marked complete, which is when
\* getUnitProgress for the unit's file keys reports completed = total > 0.
C25_UnitCompleteAgreesWithProgress ==
  progOp.op = "isUnitComplete" =>
    LET materials == {progOp.keys[i] : i \in DOMAIN progOp.keys}
        completed == Cardinality({k \in materials : progress[progOp.course][k] = "true"})
        total == Cardinality(materials)
    IN unitAnswer <=> (total > 0 /\ completed = total)

\* C28: a rename made while the channel's socket is not open sends no
\* set_username, and no later step that is not itself a rename sends one
\* (no open, close, reconnect, poll or progress update does): every
\* set_username a step sends is sent by a rename made while the socket in
\* wsRef was open, on that socket, and carries that rename's name.
C28_OfflineRenameNeverAnnounced ==
  [][\A i \in DOMAIN sent' :
       sent'[i].type = "set_username" =>
         /\ lastOp'.op = "updateUsername"
         /\ wsRef # 0
         /\ sockets[wsRef].st = "OPEN"
         /\ sent'[i].username = lastOp'.name
         /\ sent'[i].sock = wsRef]_vars

\* a rename to "a" was accepted while the only socket so far was still
\* connecting (it never opened: isConnected is false and no close event has
\* come), and nothing was sent
C28_Witness ==
  /\ lastOp.op = "updateUsername"
  /\ lastOp.name = <<"a">>
  /\ username = <<"a">>
  /\ lsUsername = <<"a">>
  /\ ~isConnected
  /\ Len(sockets) = 2
  /\ sockets[1].st = "CLOSING"
  /\ wsRef = 2
  /\ sent = <<>>

\* C29: a unit is shown as complete (percentage = 100) exactly when every one
\* of its materials is complete (completed = total, total > 0), and the unit
\* button marks the whole unit complete whenever a material was incomplete.
C29_ShownCompleteIffAllComplete ==
  /\ UnitPercentage = 100 <=> (unitCompleted = unitTotal /\ unitTotal > 0)
  /\ (unitOp = "unitButton" /\ unitWasIncomplete) => unitMarkComplete

\* C26: on the study page the sidebar row highlighted as active (the row
\* whose index is activeIndex) is the item shown in the viewer,
\* items[activeIndex].
C26_HighlightedIsShown ==
  (phase = "mounted" /\ items # <<>> /\ activeIndex < Len(items))
    => ItemAt(GroupedItems(items), activeIndex) = ItemAt(items, activeIndex)

\* C27: while the queue is non-empty 0 <= activeIndex < items.length, and
\* goToNext changes the completion flags only by marking the item that was
\* active complete when it was not: it never un-completes a file.
C27_ActiveIndexInRangeNextOnlyMarks ==
  /\ [](items # <<>> => (0 <= activeIndex /\ activeIndex < Len(items)))
  /\ [][studyOp' = "next" =>
          LET id == items[activeIndex + 1]
          IN /\ id = items'[activeIndex']
             /\ \A c \in PCourses, k \in PKeys :
                  /\ progress[c][k] = "true" => progress'[c][k] = "true"
                  /\ progress'[c][k] # progress[c][k] =>
                       (c = ItemCourse(id) /\ k = ItemKey(id) /\ progress'[c][k] = "true")
             /\ marked' <=> (ItemKey(id) # NoKey /\ progress[ItemCourse(id)][ItemKey(id)] # "true")
             /\ marked' => progress'[ItemCourse(id)][ItemKey(id)] = "true"]_vars

\* goToNext left an item that was complete already: nothing was toggled and
\* the item is still complete
C27_Witness ==
  /\ studyOp = "next"
  /\ ~marked
  /\ activeIndex = 1
  /\ Len(items) = 3
  /\ ItemKey(items[1]) # NoKey
  /\ progress[ItemCourse(items[1])][ItemKey(items[1])] = "true"

\* C30: a sync_study_items message is sent only while connected (the flag
\* is set and the channel's socket is open), for the current course, which
\* is never "global", with the non-empty list of the file keys of the cart's
\* items of that course; no message names a course whose last item the step
\* removed.
C30_SyncOnlyConnectedRealCourseNonEmpty ==
  \A n \in DOMAIN synced :
    LET m == synced[n]
        listed == {i \in DOMAIN items :
                     ItemCourse(items[i]) = m.courseId /\ ItemKey(items[i]) # NoKey}
    IN /\ isConnected
       /\ m.sock = wsRef /\ wsRef # 0 /\ sockets[wsRef].st = "OPEN"
       /\ m.courseId \notin {"global", ""}
       /\ activeIndex < Len(items) /\ m.courseId = ItemCourse(items[activeIndex + 1])
       /\ m.fileKeys # <<>>
       /\ Len(m.fileKeys) = Cardinality(listed)
       /\ \A j \in DOMAIN m.fileKeys :
            \E i \in listed :
              /\ m.fileKeys[j] = ItemKey(items[i])
              /\ Cardinality({i2 \in listed : i2 <= i}) = j
       /\ m.courseId \notin dropped
       /\ Len(synced) = 1

\* connected, the only item of course c2 was removed from a cart that keeps
\* an item of the current course c1: one message went out, for c1
C30_Witness ==
  /\ studyOp = "remove"
  /\ dropped = {"c2"}
  /\ isConnected
  /\ Len(synced) = 1
  /\ Len(items) = 2
  /\ synced[1].courseId = "c1"
  /\ synced[1].fileKeys = <<"1-1">>

====
